---- MODULE Spec2Model ----
(***************************************************************************)
(* A model of sf::TcpSocket (src/SFML/Network/TcpSocket.cpp): the raw      *)
(* transfer primitives send(data, size, sent) and receive(data, size,      *)
(* received), and the length-prefixed packet protocol send(Packet&) and    *)
(* receive(Packet&) with its reassembly record m_pendingPacket.            *)
(*                                                                         *)
(* Two sockets are modelled, the two ends of one connection: the sending   *)
(* end (its send-side state) and the receiving end (its receive-side       *)
(* state), joined by the byte stream `wire`.  The system calls ::send and  *)
(* ::recv are the environment: each call's return value is chosen          *)
(* nondeterministically among the values the transport can return.  A      *)
(* handler that loops over system calls is one action per loop iteration,  *)
(* with a program counter that forces the handler to run to its return.    *)
(*                                                                         *)
(* connect(address, port, timeout) and disconnect() are modelled too; the  *)
(* results of ::connect, select and getRemoteAddress() are the             *)
(* environment's.  The specifications:                                     *)
(*   Spec          send(Packet&) and receive(Packet&) over one connection  *)
(*   SpecChunks    the same, the Done chunk calls of the receiver counted  *)
(*   SpecRaw       the raw send and receive called by the user             *)
(*   SpecConnect   connect, disconnect and setBlocking on one socket       *)
(*   SpecResume    send(Packet&) across disconnect and connect             *)
(*   SpecReconnect receive(Packet&) across disconnect and connect          *)
(***************************************************************************)
EXTENDS Integers, Sequences, FiniteSets, TLC

\* ------------------------------------------------------------------ bounds
\* Longest payload a packet carries.
MaxLen == 3
\* Number of packets the sending caller sends.
MaxMsgs == 2
\* Bytes the transport holds in flight between the two ends.
WireCap == 3

\* ------------------------------------------------------- program constants
\* sizeof(m_pendingPacket.Size), sizeof(packetSize): the 4-byte length prefix.
PrefixSize == 4
\* char buffer[1024]: the scratch buffer of receive(Packet&).
BufferSize == 1024

Min(a, b) == IF a <= b THEN a ELSE b

\* The payload of the k-th packet of length L: bytes distinct within a packet
\* and between packets, so loss, duplication and reordering all show.
PayloadOf(k, L) == [i \in 1..L |-> 10 * k + i]

\* The first `size` bytes of the buffer a caller hands to the raw send.
RawBuffer(size) == [i \in 1..size |-> 100 + i]

Statuses == {"Done", "NotReady", "Partial", "Disconnected", "Error"}

\* What a failed system call leaves in errno, by class.
Errnos == {"EWOULDBLOCK", "ECONNRESET", "EOTHER"}

\* ------------------------------------------------------------ pure helpers

\* priv::SocketImpl::getErrorStatus(): the status a failed system call's errno
\* translates to.
getErrorStatus(err) ==
    CASE err = "EWOULDBLOCK" -> "NotReady"
      [] err = "ECONNRESET"  -> "Disconnected"
      [] OTHER               -> "Error"

\* static_cast<std::uint32_t>(size): size modulo 2^32, computed on the two
\* 16-bit halves (2^32 itself is beyond the model checker's integers).
uint32(n) == (((n \div 65536) % 65536) * 65536) + (n % 65536)

\* htonl(x) followed by memcpy of the 4 bytes of the result: the bytes of x in
\* network byte order (most significant first), as they lie in memory.
htonl(x) ==
    << (x \div 16777216) % 256, (x \div 65536) % 256, (x \div 256) % 256, x % 256 >>

\* ntohl(m_pendingPacket.Size): the value of 4 bytes of memory that hold a
\* number in network byte order.
ntohl(b) == b[1] * 16777216 + b[2] * 65536 + b[3] * 256 + b[4]

\* memcpy(dst + at, src, Len(src)): dst with src written from offset `at` on.
memcpy(dst, at, src) ==
    [i \in 1..Len(dst) |->
        IF i > at /\ i <= at + Len(src) THEN src[i - at] ELSE dst[i]]

\* PendingPacket(): Size and SizeReceived zero, Data empty.
PendingPacket == [Size |-> <<0, 0, 0, 0>>, SizeReceived |-> 0, Data |-> <<>>]

VARIABLES
    \* -- the sending socket and the Packet its caller sends
    sendPacket,           \* the Packet given to send(Packet&): m_data, m_sendPos
    m_blockToSendBuffer,  \* the staging block: prefix bytes, then payload
    sndPc,                \* "idle", or "loop" inside send(data, size, sent)
    sndCall,              \* the last send(data, size, sent) call: caller, data, size, sent
    sndStatus,            \* the status the last send call returned ("None": none yet)
    sndOpen,              \* the sending socket's handle is open
    \* -- the receiving socket and the Packet its caller receives into
    m_pendingPacket,      \* the reassembly record: Size, SizeReceived, Data
    recvPacket,           \* the payload of the Packet given to receive(Packet&)
    rcvPc,                \* "idle", "prefix" (first loop) or "payload" (second loop)
    rcvStatus,            \* the status the last receive call returned
    rcvOpen,              \* the receiving socket's handle is open
    \* -- the transport
    wire,                 \* bytes accepted by ::send and not yet returned by ::recv
    \* -- observations (history, read by no handler)
    sentLog,              \* payloads of the packets the caller started to send
    delivered,            \* payloads that receive(Packet&) delivered with Done
    txLog,                \* bytes ::send accepted for the packet send(Packet&) is sending
    rxLog,                \* bytes the chunk calls of receive(Packet&) took from the stream
    sndFailed,            \* some send(Packet&) returned Error or Disconnected
    txObs,                \* the last ::send call: its result and errno
    rxObs,                \* the last receive(data, size, received) call
    chunkObs,             \* if `on`: `done`, the chunk calls of receive(Packet&)
                          \* that returned Done, for the message being received
                          \* or just delivered
    \* -- the life cycle of the sending socket
    sndBlocking,          \* the sending socket's blocking mode (isBlocking())
    connObs               \* the connect call that just returned on the sending
                          \* socket, forgotten at its next call (history)

vars == << sendPacket, m_blockToSendBuffer, sndPc, sndCall, sndStatus, sndOpen,
           m_pendingPacket, recvPacket, rcvPc, rcvStatus, rcvOpen, wire,
           sentLog, delivered, txLog, rxLog, sndFailed, txObs, rxObs,
           chunkObs, sndBlocking, connObs >>

sndVars == << sendPacket, m_blockToSendBuffer, sndPc, sndCall, sndStatus, sndOpen,
              sentLog, txLog, sndFailed, txObs >>

rcvVars == << m_pendingPacket, recvPacket, rcvPc, rcvStatus, rcvOpen,
              delivered, rxLog, rxObs, chunkObs >>

lifeVars == << sndBlocking, connObs >>

NoCall == [caller |-> "none", valid |-> FALSE, data |-> <<>>, size |-> 0, sent |-> 0]
NoTx == [result |-> 1, err |-> "none"]

\* The record of one ::send call: the sign of its result, and its errno.
TxObs(r) == [result |-> IF r.result > 0 THEN 1 ELSE r.result, err |-> r.err]
NoRx == [valid |-> TRUE, calls |-> 0, size |-> 0, result |-> 1, err |-> "none",
         received |-> 0, status |-> "None"]

\* No ::connect, select or getRemoteAddress() call was made.
NoSys == [result |-> 0, err |-> "none"]
NoConnect == [timeout |-> 0, blocking |-> TRUE, attempts |-> 0, attempt |-> NoSys,
              waits |-> 0, wait |-> NoSys, probes |-> 0, probe |-> NoSys,
              status |-> "None"]

InitWith(count) ==
    /\ sendPacket = [m_data |-> <<>>, m_sendPos |-> 0]
    /\ m_blockToSendBuffer = <<>>
    /\ sndPc = "idle"
    /\ sndCall = NoCall
    /\ sndStatus = "None"
    /\ sndOpen = TRUE
    /\ m_pendingPacket = PendingPacket
    /\ recvPacket = <<>>
    /\ rcvPc = "idle"
    /\ rcvStatus = "None"
    /\ rcvOpen = TRUE
    /\ wire = <<>>
    /\ sentLog = <<>>
    /\ delivered = <<>>
    /\ txLog = <<>>
    /\ rxLog = <<>>
    /\ sndFailed = FALSE
    /\ txObs = NoTx
    /\ rxObs = NoRx
    /\ chunkObs = [on |-> count, done |-> 0]
    /\ sndBlocking = TRUE
    /\ connObs = NoConnect

\* The two sockets connected, nothing sent yet; the chunk calls not counted.
Init == InitWith(FALSE)

\* ------------------------------------------------------------ the transport

\* What ::send(handle, p, n, flags) may return, with the errno it leaves: a
\* count of accepted bytes (at most n, at most what the transport has room
\* for), zero, or -1.  A closed handle only fails.
SendResults(n) ==
    IF sndOpen
    THEN {[result |-> k, err |-> "none"] :
             k \in 0..Min(n, WireCap - Len(wire))}
         \cup {[result |-> -1, err |-> e] : e \in Errnos}
    ELSE {[result |-> -1, err |-> "EOTHER"]}

\* What recv(handle, p, n, flags) may return: a count of bytes taken from the
\* head of the stream (at most n), zero when the peer has closed and the
\* stream is drained (or when n is zero), or -1.  A closed handle only fails.
RecvResults(n) ==
    IF rcvOpen
    THEN {[result |-> k, err |-> "none"] : k \in 1..Min(n, Len(wire))}
         \cup {[result |-> 0, err |-> "none"] :
                  x \in {y \in {1} : n = 0 \/ (~sndOpen /\ wire = <<>>)}}
         \cup {[result |-> -1, err |-> e] : e \in Errnos}
    ELSE {[result |-> -1, err |-> "EOTHER"]}

\* -------------------------------------------- send(data, size, sent), 237-272

\* Lines 240-244: the parameter check.
sendRejects(valid, size) == ~valid \/ size = 0

\* A raw send that reports a failed ::send as it is, bytes sent or not.
sendErrorStatusPlain(status, sent) == status

\* Lines 262-267: the status of a failed ::send, given the bytes sent so far.
sendErrorStatus(status, sent) ==
    IF status = "NotReady" /\ sent # 0 THEN "Partial" ELSE status

\* A send(Packet&) that records only the last call's byte count on Partial
\* (= instead of +=).
resumeOffsetLast(status, sendPos, sent) ==
    IF status = "Partial" THEN sent
    ELSE IF status = "Done" THEN 0
    ELSE sendPos

\* A send(Packet&) that clears the resume offset on every status but Partial.
resumeOffsetClear(status, sendPos, sent) ==
    IF status = "Partial" THEN sendPos + sent ELSE 0

\* Lines 358-365 of send(Packet&): the packet's m_sendPos after the raw send
\* returned `status` with `sent` bytes sent.
resumeOffset(status, sendPos, sent) ==
    IF status = "Partial" THEN sendPos + sent
    ELSE IF status = "Done" THEN 0
    ELSE sendPos

\* The return of send(data, size, sent) to its caller, and, when the caller is
\* send(Packet&) sending `pkt`, the rest of that handler (lines 357-367).
SendReturn(call, pkt, status, sent) ==
    /\ sndPc' = "idle"
    /\ sndCall' = [call EXCEPT !.sent = sent]
    /\ sndStatus' = status
    /\ sendPacket' =
          IF call.caller = "packet"
          THEN [pkt EXCEPT !.m_sendPos = resumeOffset(status, pkt.m_sendPos, sent)]
          ELSE pkt
    /\ sndFailed' = (sndFailed \/ status \in {"Error", "Disconnected"})

\* The entry of send(data, size, sent), lines 237-248: the parameter check,
\* then sent = 0 and the first test of the loop condition.
SendEnter(call, pkt) ==
    IF sendRejects(call.valid, call.size)
    THEN SendReturn(call, pkt, "Error", call.sent)
    ELSE /\ sndPc' = "loop"
         /\ sndCall' = [call EXCEPT !.sent = 0]
         /\ sndStatus' = "Running"
         /\ sendPacket' = pkt
         /\ UNCHANGED sndFailed

\* One iteration of the loop of send(data, size, sent), lines 248-269: one
\* ::send of the bytes from data + sent on, then either the return on a
\* failure, or sent += result and the loop condition again (Done when false).
SendLoop ==
    /\ sndPc = "loop"
    /\ \E r \in SendResults(sndCall.size - sndCall.sent) :
          LET sent  == sndCall.sent
              bytes == SubSeq(sndCall.data, sent + 1, sent + r.result)
          IN  /\ txObs' = TxObs(r)
              /\ IF r.result < 0
                 THEN /\ SendReturn(sndCall, sendPacket,
                                    sendErrorStatus(getErrorStatus(r.err), sent), sent)
                      /\ UNCHANGED << wire, txLog >>
                 ELSE /\ wire' = wire \o bytes
                      /\ txLog' = IF sndCall.caller = "packet" THEN txLog \o bytes ELSE txLog
                      /\ IF sent + r.result < sndCall.size
                         THEN /\ sndCall' = [sndCall EXCEPT !.sent = sent + r.result]
                              /\ UNCHANGED << sndPc, sndStatus, sendPacket, sndFailed >>
                         ELSE SendReturn(sndCall, sendPacket, "Done", sent + r.result)
    /\ UNCHANGED << m_blockToSendBuffer, sndOpen, sentLog >>
    /\ UNCHANGED rcvVars
    /\ UNCHANGED lifeVars

\* ------------------------------------------------- send(Packet&), 313-368

\* Lines 325-340: the block to send, the packet size in network byte order
\* followed by the packet's data.
blockToSend(data) == htonl(uint32(Len(data))) \o data

\* A send(Packet&) that forgets the resume offset and sends the whole block
\* again.
sendArgsFromStart(block, sendPos) ==
    [caller |-> "packet", valid |-> TRUE, data |-> block,
     size |-> Len(block), sent |-> 0]

\* Lines 351-353: the arguments of the raw send, the block from m_sendPos on.
sendArgs(block, sendPos) ==
    [caller |-> "packet", valid |-> TRUE,
     data |-> SubSeq(block, sendPos + 1, Len(block)),
     size |-> Len(block) - sendPos, sent |-> 0]

\* The packets the caller may pass to send(Packet&): a fresh packet once the
\* last one was sent (or none was yet), the same packet again after NotReady or
\* Partial, and none after Error or Disconnected, which end the caller's use
\* of the connection.
CallerPackets ==
    IF sndStatus \in {"None", "Done"}
    THEN {[m_data |-> PayloadOf(Len(sentLog) + 1, L), m_sendPos |-> 0] :
             L \in {l \in 0..MaxLen : Len(sentLog) < MaxMsgs}}
    ELSE IF sndStatus \in {"NotReady", "Partial"} THEN {sendPacket}
    ELSE {}

\* send(Packet&) from its entry to the entry of the raw send's loop.
SendPacket ==
    /\ sndPc = "idle"
    /\ \E pkt \in CallerPackets :
          LET block == blockToSend(pkt.m_data)
          IN  /\ m_blockToSendBuffer' = block
              /\ SendEnter(sendArgs(block, pkt.m_sendPos), pkt)
              /\ sentLog' = IF sndStatus \in {"None", "Done"}
                            THEN Append(sentLog, pkt.m_data) ELSE sentLog
              /\ txLog' = IF sndStatus \in {"None", "Done"} THEN <<>> ELSE txLog
    /\ connObs' = NoConnect
    /\ UNCHANGED << sndOpen, txObs, wire, sndBlocking >>
    /\ UNCHANGED rcvVars

\* --------------------------------------- receive(data, size, received), 276-309

\* A raw receive that takes a zero return of recv for a success (>= 0 for > 0).
receiveChunkZeroDone(valid, r) ==
    IF ~valid
    THEN [calls |-> 0, received |-> 0, status |-> "Error"]
    ELSE IF r.result >= 0
    THEN [calls |-> 1, received |-> r.result, status |-> "Done"]
    ELSE [calls |-> 1, received |-> 0, status |-> getErrorStatus(r.err)]

\* One call of receive(data, size, received), given what recv returns if it is
\* called: the number of recv calls made, received, and the status.
receiveChunk(valid, r) ==
    IF ~valid
    THEN [calls |-> 0, received |-> 0, status |-> "Error"]
    ELSE IF r.result > 0
    THEN [calls |-> 1, received |-> r.result, status |-> "Done"]
    ELSE IF r.result = 0
    THEN [calls |-> 1, received |-> 0, status |-> "Disconnected"]
    ELSE [calls |-> 1, received |-> 0, status |-> getErrorStatus(r.err)]

\* The record of one receive(data, size, received) call.
RxObs(valid, size, r, c) ==
    [valid |-> valid, calls |-> c.calls, size |-> size,
     result |-> IF c.calls = 0 THEN 1 ELSE r.result,
     err |-> IF c.calls = 0 THEN "none" ELSE r.err,
     received |-> c.received, status |-> c.status]

\* ---------------------------------------------- receive(Packet&), 372-430

\* A receive(Packet&) that leaves in the user packet what it held.
packetClearKept(pkt) == pkt

\* Line 375: packet.clear().
packetClear(pkt) == <<>>

\* A first loop that asks for the whole size on every chunk call.
prefixToGetWhole(sizeReceived) == PrefixSize

\* Line 387: the bytes asked for in the first loop.
prefixToGet(sizeReceived) == PrefixSize - sizeReceived

\* A second loop that asks for a full scratch buffer on every chunk call.
sizeToGetBuffer(packetSize, have) == BufferSize

\* Line 408: the bytes asked for in the second loop.
sizeToGet(packetSize, have) == Min(packetSize - have, BufferSize)

\* A first loop that forgets the offset and writes every chunk at the start
\* of m_pendingPacket.Size.
prefixWriteAtStart(size, sizeReceived, bytes) == memcpy(size, 0, bytes)

\* Lines 386-387: the received bytes land in m_pendingPacket.Size from offset
\* SizeReceived on.
prefixWrite(size, sizeReceived, bytes) == memcpy(size, sizeReceived, bytes)

\* A second loop that runs once more when the data is complete (<= for <).
payloadIncompleteOrEqual(have, packetSize) == have <= packetSize

\* Line 405: the condition of the second loop.
payloadIncomplete(have, packetSize) == have < packetSize

\* Line 388: m_pendingPacket.SizeReceived += received.
prefixAdvance(sizeReceived, received) == sizeReceived + received

\* Lines 414-419: the chunk appended to m_pendingPacket.Data.
appendChunk(data, bytes) == IF Len(bytes) > 0 THEN data \o bytes ELSE data

\* Lines 423-424: the user packet after the copy of the pending data.
onReceive(pkt, data) == IF data # <<>> THEN data ELSE pkt

\* A receive(Packet&) that drops the pending packet data when a chunk call
\* fails.
ReceiveReturnReset(status, pend) ==
    /\ rcvPc' = "idle"
    /\ rcvStatus' = status
    /\ m_pendingPacket' = PendingPacket
    /\ UNCHANGED << recvPacket, delivered >>

\* A return of receive(Packet&) with a status other than Done.
ReceiveReturn(status, pend) ==
    /\ rcvPc' = "idle"
    /\ rcvStatus' = status
    /\ m_pendingPacket' = pend
    /\ UNCHANGED << recvPacket, delivered >>

\* Lines 403-429 from the loop condition on, with the record `pend`: either
\* the second loop goes on, or the packet is complete: it is copied to the
\* user packet, the record is reset, and receive(Packet&) returns Done.
PayloadPhase(pend, pkt) ==
    IF payloadIncomplete(Len(pend.Data), ntohl(pend.Size))
    THEN /\ rcvPc' = "payload"
         /\ m_pendingPacket' = pend
         /\ recvPacket' = pkt
         /\ rcvStatus' = "Running"
         /\ UNCHANGED delivered
    ELSE /\ rcvPc' = "idle"
         /\ recvPacket' = onReceive(pkt, pend.Data)
         /\ m_pendingPacket' = PendingPacket
         /\ rcvStatus' = "Done"
         /\ delivered' = Append(delivered, onReceive(pkt, pend.Data))

\* The count of Done chunk calls after a chunk call that returned `status`:
\* the count starts again with the first chunk call of a message.
ChunkObs(status) ==
    IF ~chunkObs.on \/ status # "Done" THEN chunkObs
    ELSE IF m_pendingPacket.SizeReceived = 0 THEN [chunkObs EXCEPT !.done = 1]
    ELSE [chunkObs EXCEPT !.done = @ + 1]

\* receive(Packet&) from its entry to its first loop, lines 372-401.
ReceivePacket ==
    /\ rcvPc = "idle"
    /\ rxObs' = NoRx
    /\ IF m_pendingPacket.SizeReceived < PrefixSize
       THEN /\ rcvPc' = "prefix"
            /\ recvPacket' = packetClear(recvPacket)
            /\ rcvStatus' = "Running"
            /\ UNCHANGED << m_pendingPacket, delivered >>
       ELSE PayloadPhase(m_pendingPacket, packetClear(recvPacket))
    /\ UNCHANGED << rcvOpen, rxLog, wire, chunkObs >>
    /\ UNCHANGED sndVars
    /\ UNCHANGED lifeVars

\* One iteration of the first loop, lines 384-392: one chunk call for the rest
\* of the size, and, when the size is complete, lines 395 and 403-429.
ReceivePrefix ==
    /\ rcvPc = "prefix"
    /\ LET have == m_pendingPacket.SizeReceived
           size == prefixToGet(have)
       IN  \E r \in RecvResults(size) :
              LET c     == receiveChunk(TRUE, r)
                  bytes == SubSeq(wire, 1, c.received)
                  pend  == [m_pendingPacket EXCEPT
                               !.Size = prefixWrite(@, have, bytes),
                               !.SizeReceived = prefixAdvance(have, c.received)]
              IN  /\ rxObs' = RxObs(TRUE, size, r, c)
                  /\ chunkObs' = ChunkObs(c.status)
                  /\ wire' = SubSeq(wire, c.received + 1, Len(wire))
                  /\ rxLog' = rxLog \o bytes
                  /\ IF c.status # "Done"
                     THEN ReceiveReturn(c.status, pend)
                     ELSE IF pend.SizeReceived < PrefixSize
                     THEN /\ m_pendingPacket' = pend
                          /\ UNCHANGED << rcvPc, rcvStatus, recvPacket, delivered >>
                     ELSE PayloadPhase(pend, recvPacket)
    /\ UNCHANGED rcvOpen
    /\ UNCHANGED sndVars
    /\ UNCHANGED lifeVars

\* One iteration of the second loop, lines 405-420: one chunk call into the
\* scratch buffer, the chunk appended, and the loop condition again.
ReceivePayload ==
    /\ rcvPc = "payload"
    /\ LET packetSize == ntohl(m_pendingPacket.Size)
           size       == sizeToGet(packetSize, Len(m_pendingPacket.Data))
       IN  \E r \in RecvResults(size) :
              LET c     == receiveChunk(TRUE, r)
                  bytes == SubSeq(wire, 1, c.received)
                  pend  == [m_pendingPacket EXCEPT !.Data = appendChunk(@, bytes)]
              IN  /\ rxObs' = RxObs(TRUE, size, r, c)
                  /\ chunkObs' = ChunkObs(c.status)
                  /\ wire' = SubSeq(wire, c.received + 1, Len(wire))
                  /\ rxLog' = rxLog \o bytes
                  /\ IF c.status # "Done"
                     THEN ReceiveReturn(c.status, m_pendingPacket)
                     ELSE PayloadPhase(pend, recvPacket)
    /\ UNCHANGED rcvOpen
    /\ UNCHANGED sndVars
    /\ UNCHANGED lifeVars

\* ------------------------------------------------------ disconnect(), 214-221

\* A disconnect() that leaves the pending packet data as it is.
disconnectPendingKept(pend) == pend

\* Line 220: m_pendingPacket = PendingPacket().
disconnectPending(pend) == PendingPacket

\* disconnect() on the receiving socket: the handle is closed and the pending
\* packet data reset.
DisconnectReceiver ==
    /\ rcvPc = "idle"
    /\ rcvOpen' = FALSE
    /\ m_pendingPacket' = disconnectPending(m_pendingPacket)
    /\ UNCHANGED << recvPacket, rcvPc, rcvStatus, delivered, rxLog, rxObs,
                    chunkObs, wire >>
    /\ UNCHANGED sndVars
    /\ UNCHANGED lifeVars

\* disconnect() on the sending socket: the handle is closed (its own pending
\* packet data, reset too, is the receive side of that socket).
DisconnectSender ==
    /\ sndPc = "idle"
    /\ sndOpen' = FALSE
    /\ UNCHANGED << sendPacket, m_blockToSendBuffer, sndPc, sndCall, sndStatus,
                    sentLog, txLog, sndFailed, txObs, wire, sndBlocking >>
    /\ connObs' = NoConnect
    /\ UNCHANGED rcvVars

Next ==
    \/ SendPacket
    \/ SendLoop
    \/ ReceivePacket
    \/ ReceivePrefix
    \/ ReceivePayload
    \/ DisconnectReceiver
    \/ DisconnectSender

Spec == Init /\ [][Next]_vars

\* The same two ends, the Done chunk calls of the receiver counted, the
\* receiving socket not disconnected.
InitChunks == InitWith(TRUE)

NextChunks ==
    \/ SendPacket
    \/ SendLoop
    \/ ReceivePacket
    \/ ReceivePrefix
    \/ ReceivePayload
    \/ DisconnectSender

SpecChunks == InitChunks /\ [][NextChunks]_vars

\* ---------------------------------------------- the raw primitives, called
\* by the user directly

\* send(data, size, sent) called by the user, from its entry to the entry of
\* its loop: data may be null and size may be zero.
RawSend ==
    /\ sndPc = "idle"
    /\ \E valid \in BOOLEAN, size \in 0..MaxLen :
          LET data == IF valid THEN RawBuffer(size) ELSE <<>>
          IN  SendEnter([caller |-> "raw", valid |-> valid, data |-> data,
                         size |-> size, sent |-> 0], sendPacket)
    /\ connObs' = NoConnect
    /\ UNCHANGED << m_blockToSendBuffer, sndOpen, txObs, wire, sentLog, txLog,
                    sndBlocking >>
    /\ UNCHANGED rcvVars

\* receive(data, size, received) called by the user, lines 276-309, whole:
\* data may be null and size may be zero.
RawReceive ==
    /\ rcvPc = "idle"
    /\ \E valid \in BOOLEAN, size \in 0..MaxLen :
          \E r \in RecvResults(size) :
             LET c     == receiveChunk(valid, r)
                 bytes == SubSeq(wire, 1, c.received)
             IN  /\ rxObs' = RxObs(valid, size, r, c)
                 /\ wire' = SubSeq(wire, c.received + 1, Len(wire))
                 /\ rcvStatus' = c.status
    /\ UNCHANGED << m_pendingPacket, recvPacket, rcvPc, rcvOpen, delivered, rxLog,
                    chunkObs >>
    /\ UNCHANGED sndVars
    /\ UNCHANGED lifeVars

NextRaw ==
    \/ RawSend
    \/ SendLoop
    \/ RawReceive
    \/ DisconnectReceiver
    \/ DisconnectSender

SpecRaw == Init /\ [][NextRaw]_vars

\* --------------------------------------------------------- connect(), 121-210

\* The timeouts a caller passes to connect: negative, zero and positive.
Timeouts == {-1, 0, 1}

\* What ::connect(handle, address, size) may return, with the errno it leaves:
\* 0, or -1 (would-block stands for a connection in progress).
ConnectResults ==
    {[result |-> 0, err |-> "none"]} \cup {[result |-> -1, err |-> e] : e \in Errnos}

\* What select(handle + 1, null, {handle}, null, timeout) may return: 1 when
\* the handle is writable, 0 when the timeout is over (errno is left as it
\* was), or -1 with the errno it leaves.
SelectResults ==
    {[result |-> 1, err |-> "none"], [result |-> 0, err |-> "none"]}
    \cup {[result |-> -1, err |-> e] : e \in Errnos}

\* What the probe getRemoteAddress().has_value() may find: the peer's address
\* (result 1), or none (result 0) with the errno the failed probe leaves.
ProbeResults ==
    {[result |-> 1, err |-> "none"]} \cup {[result |-> 0, err |-> e] : e \in Errnos}

\* A connect that takes the timeout path whatever the timeout.
usesTimeoutAlways(timeout) == TRUE

\* Line 132, negated: the timeout path is taken for a positive timeout.
usesTimeout(timeout) == ~(timeout <= 0)

\* Lines 151-152: the mode during the attempt, if (blocking) setBlocking(false).
attemptMode(blocking) == IF blocking THEN FALSE ELSE blocking

\* A connect that leaves the socket non-blocking after an instant success.
restoredModeNonBlocking(blocking) == FALSE

\* Line 158: setBlocking(blocking) after an instant success.
restoredMode(blocking) == blocking

\* Lines 166-167: a socket that was non-blocking returns the attempt's status
\* at once.
returnsAtOnce(blocking) == ~blocking

\* A connect that never waits for the connection in progress.
waitsForNever(status) == FALSE

\* Line 170: the wait is for a connection in progress only.
waitsFor(status) == status = "NotReady"

\* A connect that takes a writable handle for a connection, without the probe
\* of the peer's address.
waitStatusNoProbe(s, p, errno) ==
    IF s.result > 0 THEN "Done"
    ELSE getErrorStatus(IF s.result < 0 THEN s.err ELSE errno)

\* Lines 183-202: the status after select returned s, the probe p (if made),
\* errno being `errno` before select.
waitStatus(s, p, errno) ==
    IF s.result > 0
    THEN IF p.result = 1 THEN "Done" ELSE getErrorStatus(p.err)
    ELSE getErrorStatus(IF s.result < 0 THEN s.err ELSE errno)

\* Line 206: setBlocking(true) at the end of the timeout path.
finalMode(blocking) == TRUE

\* connect(remoteAddress, remotePort, timeout), lines 132-209, on a socket
\* whose mode is `blocking`, given what ::connect (c), select (s) and the probe
\* (p) return if they are called: the status, the mode at the return, and the
\* system calls made.
connect(timeout, blocking, c, s, p) ==
    IF ~usesTimeout(timeout)
    THEN [status |-> IF c.result = -1 THEN getErrorStatus(c.err) ELSE "Done",
          blocking |-> blocking, attempts |-> 1, waits |-> 0, probes |-> 0]
    ELSE IF c.result >= 0
    THEN [status |-> "Done", blocking |-> restoredMode(blocking),
          attempts |-> 1, waits |-> 0, probes |-> 0]
    ELSE IF returnsAtOnce(blocking)
    THEN [status |-> getErrorStatus(c.err), blocking |-> attemptMode(blocking),
          attempts |-> 1, waits |-> 0, probes |-> 0]
    ELSE IF waitsFor(getErrorStatus(c.err))
    THEN [status |-> waitStatus(s, p, c.err), blocking |-> finalMode(blocking),
          attempts |-> 1, waits |-> 1, probes |-> IF s.result > 0 THEN 1 ELSE 0]
    ELSE [status |-> getErrorStatus(c.err), blocking |-> finalMode(blocking),
          attempts |-> 1, waits |-> 0, probes |-> 0]

\* The record of one connect call: its arguments, the system calls it made
\* with their results, and its status.
ConnObs(timeout, blocking, c, s, p, out) ==
    [timeout |-> timeout, blocking |-> blocking,
     attempts |-> out.attempts, attempt |-> c,
     waits |-> out.waits, wait |-> IF out.waits = 1 THEN s ELSE NoSys,
     probes |-> out.probes, probe |-> IF out.probes = 1 THEN p ELSE NoSys,
     status |-> out.status]

\* The select calls connect makes after ::connect returned c, with their
\* results: none unless the handler gets to line 183.
SelectCalls(timeout, blocking, c) ==
    IF connect(timeout, blocking, c, NoSys, NoSys).waits = 1
    THEN SelectResults ELSE {NoSys}

\* The probes of the peer's address connect makes after select returned s,
\* with their results: none unless the handler gets to line 187.
ProbeCalls(timeout, blocking, c, s) ==
    IF connect(timeout, blocking, c, s, NoSys).probes = 1
    THEN ProbeResults ELSE {NoSys}

\* Whether the handle is connected once connect has returned `status`: it is
\* after Done, it may be after NotReady (the connection in progress goes on),
\* it is not after a failure.
ConnectedAfter(status) ==
    IF status = "Done" THEN {TRUE}
    ELSE IF status = "NotReady" THEN {TRUE, FALSE}
    ELSE {FALSE}

\* connect() on the sending socket, whole: disconnect() and create() (lines
\* 124-127), then lines 132-209.  A new connection starts with an empty stream.
\* The call is recorded in connObs if `record` is true.
SenderConnects(record) ==
    /\ sndPc = "idle"
    /\ \E timeout \in Timeouts, c \in ConnectResults :
       \E s \in SelectCalls(timeout, sndBlocking, c) :
       \E p \in ProbeCalls(timeout, sndBlocking, c, s) :
          LET out == connect(timeout, sndBlocking, c, s, p)
          IN  /\ sndBlocking' = out.blocking
              /\ connObs' = IF record
                            THEN ConnObs(timeout, sndBlocking, c, s, p, out)
                            ELSE NoConnect
              /\ \E open \in ConnectedAfter(out.status) :
                    /\ sndOpen' = open
                    /\ wire' = IF open THEN <<>> ELSE wire
    /\ UNCHANGED << sendPacket, m_blockToSendBuffer, sndPc, sndCall, sndStatus,
                    sentLog, txLog, sndFailed, txObs >>
    /\ UNCHANGED rcvVars

\* connect() on the sending socket, the call recorded.
ConnectSender == SenderConnects(TRUE)

\* setBlocking(b) called by the user of the sending socket.
SetBlockingSender ==
    /\ sndPc = "idle"
    /\ \E b \in BOOLEAN : sndBlocking' = b
    /\ connObs' = NoConnect
    /\ UNCHANGED << sndVars, rcvVars, wire >>

\* The life cycle of a socket whose user calls connect, disconnect, setBlocking
\* and the raw send.
NextConnect ==
    \/ RawSend
    \/ SendLoop
    \/ DisconnectSender
    \/ ConnectSender
    \/ SetBlockingSender

SpecConnect == Init /\ [][NextConnect]_vars

\* connect() on the sending socket between the sends of its packets.
ReconnectSender == SenderConnects(FALSE)

\* A sending socket whose user calls send(Packet&), disconnect and connect.
NextResume ==
    \/ SendPacket
    \/ SendLoop
    \/ DisconnectSender
    \/ ReconnectSender

SpecResume == Init /\ [][NextResume]_vars

\* The statuses connect returns, over all timeouts, modes and results of its
\* system calls.
ConnectStatuses ==
    {connect(timeout, blocking, c, s, p).status :
        timeout \in Timeouts, blocking \in BOOLEAN, c \in ConnectResults,
        s \in SelectResults, p \in ProbeResults}

\* connect() on the receiving socket, whole: disconnect(), which resets the
\* pending packet data, and create() (lines 124-127), then lines 132-209.  The
\* connection it had is gone with its handle: the bytes in flight are
\* discarded and the sending socket finds its connection closed; the new
\* connection is to a peer that sends nothing.  The socket's mode is any: no
\* other handler of the model reads it.
ConnectReceiver ==
    /\ rcvPc = "idle"
    /\ \E status \in ConnectStatuses :
          \E open \in ConnectedAfter(status) : rcvOpen' = open
    /\ m_pendingPacket' = disconnectPending(m_pendingPacket)
    /\ wire' = <<>>
    /\ sndOpen' = FALSE
    /\ UNCHANGED << recvPacket, rcvPc, rcvStatus, delivered, rxLog, rxObs,
                    chunkObs >>
    /\ UNCHANGED << sendPacket, m_blockToSendBuffer, sndPc, sndCall, sndStatus,
                    sentLog, txLog, sndFailed, txObs, sndBlocking, connObs >>

\* The two ends of a connection, the receiving socket's user calling
\* disconnect and connect between its receive calls.
NextReconnect ==
    \/ SendPacket
    \/ SendLoop
    \/ ReceivePacket
    \/ ReceivePrefix
    \/ ReceivePayload
    \/ DisconnectReceiver
    \/ ConnectReceiver

SpecReconnect == Init /\ [][NextReconnect]_vars

\* ================================================================ the claims

\* The wire format of one message: the payload length as 4 bytes, most
\* significant first, then the payload.
WireFrame(p) ==
    << (Len(p) \div 16777216) % 256, (Len(p) \div 65536) % 256,
       (Len(p) \div 256) % 256, Len(p) % 256 >> \o p

RECURSIVE Frames(_)
\* The wire format of a sequence of messages, back to back.
Frames(ps) == IF ps = <<>> THEN <<>> ELSE WireFrame(Head(ps)) \o Frames(Tail(ps))

\* C1: round trip.  Every payload receive(Packet&) delivers is, byte for byte,
\* the payload of the packet sent in that position, however ::send and ::recv
\* fragment the stream and whenever they report would-block; and once a
\* packet's send has returned Done and the stream is drained, every packet
\* sent has been delivered.
C1_RoundTrip ==
    /\ Len(delivered) <= Len(sentLog)
    /\ \A i \in 1..Len(delivered) : delivered[i] = sentLog[i]
    /\ (rcvPc = "idle" /\ rcvStatus = "Done") => recvPacket = sentLog[Len(delivered)]
    /\ (sndPc = "idle" /\ sndStatus = "Done" /\ wire = <<>>) => delivered = sentLog

\* C1's case: two packets, the second of the greatest length, sent to Done and
\* received to Done.
C1_Witness ==
    /\ Len(delivered) = MaxMsgs
    /\ Len(delivered[MaxMsgs]) = MaxLen
    /\ sndStatus = "Done"
    /\ rcvStatus = "Done"
    /\ recvPacket = sentLog[MaxMsgs]

\* C2: receive is resumable.  As long as the receiving socket is connected,
\* the bytes its chunk calls took from the stream are exactly the frames of
\* the messages delivered so far (one Done per frame), followed by the part of
\* the length prefix collected and the payload bytes collected: no byte lost,
\* none twice, all in stream order, across any number of receive calls.
C2_Resumable ==
    rcvOpen =>
        rxLog = Frames(delivered)
                \o SubSeq(m_pendingPacket.Size, 1, m_pendingPacket.SizeReceived)
                \o m_pendingPacket.Data

\* C2's case: a message was delivered, and a later receive call returned
\* NotReady with 1 to 3 bytes of the next prefix collected.
C2_Witness ==
    /\ Len(delivered) >= 1
    /\ Len(delivered[1]) = MaxLen
    /\ rcvPc = "idle"
    /\ rcvStatus = "NotReady"
    /\ m_pendingPacket.SizeReceived \in 1..(PrefixSize - 1)

\* C3: in receive(Packet&), a chunk call that returns a status other than Done
\* ends the receive call at once with that status and leaves the reassembly
\* record (SizeReceived, Size, Data) as it was before the chunk call.
C3_NonDoneChunkIsSelfLoop ==
    [][ (rcvPc # "idle" /\ rxObs'.status \notin {"Done", "None"})
        => /\ rcvPc' = "idle"
           /\ rcvStatus' = rxObs'.status
           /\ m_pendingPacket' = m_pendingPacket ]_vars

\* C3's case: a receive call ended by a failed chunk call, with part of the
\* prefix, or the prefix and part of the payload, collected before.
C3_Witness ==
    /\ rcvPc = "idle"
    /\ rxObs.status \in {"NotReady", "Disconnected", "Error"}
    /\ rcvStatus = rxObs.status
    /\ m_pendingPacket.SizeReceived = PrefixSize
    /\ Len(m_pendingPacket.Data) >= 1

\* C4: when send(Packet&) returns Partial, m_sendPos is the number of bytes of
\* the block that ::send accepted over all calls for this packet; every call
\* hands the raw send exactly the block from m_sendPos on; so the bytes
\* accepted are at any time the first bytes of the block, and after Done the
\* whole block (4 + L bytes), once and in order.
C4_PartialResume ==
    LET block == m_blockToSendBuffer
        pos   == sendPacket.m_sendPos
    IN  /\ (sndPc = "idle" /\ sndStatus = "Partial")
              => /\ pos = Len(txLog)
                 /\ 0 < pos /\ pos < Len(block)
        /\ sndPc = "loop"
              => /\ sndCall.data = SubSeq(block, pos + 1, Len(block))
                 /\ sndCall.size = Len(block) - pos
                 /\ Len(txLog) = pos + sndCall.sent
        /\ sndCall.caller = "packet"
              => /\ block = WireFrame(sendPacket.m_data)
                 /\ Len(txLog) <= Len(block)
                 /\ txLog = SubSeq(block, 1, Len(txLog))
        /\ (sndPc = "idle" /\ sndStatus = "Done") => txLog = block

\* C4's case: a Partial whose offset adds this call's bytes to those of an
\* earlier Partial.
C4_Witness ==
    /\ sndPc = "idle"
    /\ sndStatus = "Partial"
    /\ sndCall.sent >= 1
    /\ sendPacket.m_sendPos > sndCall.sent

\* C5: send(Packet&) leaves m_sendPos at 0 when it returns Done and as it was
\* before the call when it returns NotReady, Error or Disconnected; m_sendPos
\* is never beyond the bytes ::send accepted, so a retry skips none.
C5_ResumeOffsetFrame ==
    /\ [][ (sndPc = "loop" /\ sndPc' = "idle")
           => /\ sndStatus' = "Done" => sendPacket'.m_sendPos = 0
              /\ sndStatus' \in {"NotReady", "Error", "Disconnected"}
                    => sendPacket'.m_sendPos = sendPacket.m_sendPos ]_vars
    /\ [](sendPacket.m_sendPos <= Len(txLog))

\* C5's case: a send that failed with Error or Disconnected after an earlier
\* Partial, the offset of that Partial kept.
C5_Witness ==
    /\ sndPc = "idle"
    /\ sndStatus \in {"Error", "Disconnected"}
    /\ sendPacket.m_sendPos >= 1
    /\ Len(txLog) > sendPacket.m_sendPos

\* ::send reported would-block in the last call.
WouldBlock(obs) == obs.result < 0 /\ getErrorStatus(obs.err) = "NotReady"

\* C6: send(data, size, sent) returns Partial exactly when ::send reports
\* would-block after at least one byte was accepted in this call (then
\* 0 < sent < size), NotReady when would-block comes with no byte accepted,
\* and Done only with sent = size.
C6_PartialIffWouldBlockAfterBytes ==
    (sndPc = "idle" /\ sndCall.caller # "none")
        => /\ sndStatus = "Partial" <=> (WouldBlock(txObs) /\ sndCall.sent > 0)
           /\ sndStatus = "Partial" => (0 < sndCall.sent /\ sndCall.sent < sndCall.size)
           /\ (WouldBlock(txObs) /\ sndCall.sent = 0) => sndStatus = "NotReady"
           /\ sndStatus = "NotReady" => sndCall.sent = 0
           /\ sndStatus = "Done" => sndCall.sent = sndCall.size

\* C6's case: a raw send that returned Partial with all bytes but one sent.
C6_Witness ==
    /\ sndPc = "idle"
    /\ sndStatus = "Partial"
    /\ sndCall.sent = sndCall.size - 1
    /\ sndCall.size >= PrefixSize

\* C7: send(data, size, sent) reports Disconnected when ::send returns 0
\* bytes (an orderly close), and Error for a failure of ::send that is neither
\* would-block nor a closed connection.
C7_ZeroSendIsDisconnected ==
    /\ txObs.result = 0 => (sndPc = "idle" /\ sndStatus = "Disconnected")
    /\ (sndPc = "idle" /\ txObs.result < 0 /\ txObs.err = "EOTHER")
          => sndStatus = "Error"

\* C8 as stated: every receive(data, size, received) call makes exactly one
\* recv call and maps its result: n > 0 to (n, Done) with n <= size, 0 to
\* (0, Disconnected), a negative result to (0, NotReady, Disconnected or
\* Error); received is 0 whenever the status is not Done.
C8_ExactlyOneRecvPerCall ==
    rxObs.status # "None"
        => /\ rxObs.calls = 1
           /\ rxObs.result > 0
                 => /\ rxObs.received = rxObs.result
                    /\ rxObs.result <= rxObs.size
                    /\ rxObs.status = "Done"
           /\ rxObs.result = 0
                 => (rxObs.received = 0 /\ rxObs.status = "Disconnected")
           /\ rxObs.result < 0
                 => /\ rxObs.received = 0
                    /\ rxObs.status \in {"NotReady", "Disconnected", "Error"}
           /\ rxObs.status # "Done" => rxObs.received = 0

\* C8, amended: a call with a non-null buffer makes exactly one recv call and
\* maps its result as stated; a call with a null buffer makes no recv call and
\* returns (0, Error).
C8_OneRecvUnlessNullBuffer ==
    rxObs.status # "None"
        => /\ rxObs.calls = (IF rxObs.valid THEN 1 ELSE 0)
           /\ ~rxObs.valid => (rxObs.received = 0 /\ rxObs.status = "Error")
           /\ (rxObs.valid /\ rxObs.result > 0)
                 => /\ rxObs.received = rxObs.result
                    /\ rxObs.result <= rxObs.size
                    /\ rxObs.status = "Done"
           /\ (rxObs.valid /\ rxObs.result = 0)
                 => (rxObs.received = 0 /\ rxObs.status = "Disconnected")
           /\ (rxObs.valid /\ rxObs.result < 0)
                 => /\ rxObs.received = 0
                    /\ rxObs.status \in {"NotReady", "Disconnected", "Error"}
           /\ rxObs.status # "Done" => rxObs.received = 0
           /\ rxObs.status = "Done" => rxObs.received >= 1

\* C8's case: a call on a non-null buffer for which recv returned fewer bytes
\* than the capacity.
C8_Witness ==
    /\ rxObs.valid
    /\ rxObs.calls = 1
    /\ rxObs.status = "Done"
    /\ rxObs.received >= 2
    /\ rxObs.received < rxObs.size

\* C9: when the 4 prefix bytes are all zero (declared length 0), the chunk
\* call that completes the prefix ends receive(Packet&) with Done, an empty
\* payload and an empty reassembly record; the second loop is never entered
\* for such a prefix, so no payload chunk call is made.
C9_ZeroLengthDelivered ==
    /\ [][ LET n    == Len(wire) - Len(wire')
               have == m_pendingPacket.SizeReceived
           IN  (/\ rcvPc = "prefix"
                /\ n > 0
                /\ have + n = PrefixSize
                /\ memcpy(m_pendingPacket.Size, have, SubSeq(wire, 1, n))
                      = <<0, 0, 0, 0>>)
               => /\ rcvPc' = "idle"
                  /\ rcvStatus' = "Done"
                  /\ recvPacket' = <<>>
                  /\ m_pendingPacket' = PendingPacket
                  /\ delivered' = Append(delivered, <<>>) ]_vars
    /\ [](rcvPc = "payload" => m_pendingPacket.Size # <<0, 0, 0, 0>>)

\* C9's case: an empty message just delivered, after a message with a payload.
C9_Witness ==
    /\ rcvPc = "idle"
    /\ rcvStatus = "Done"
    /\ Len(delivered) = MaxMsgs
    /\ delivered[1] # <<>>
    /\ delivered[MaxMsgs] = <<>>
    /\ recvPacket = <<>>
    /\ m_pendingPacket = PendingPacket

\* The length 4 prefix bytes declare: their value, most significant first.
DeclaredLength(b) == ((b[1] * 256 + b[2]) * 256 + b[3]) * 256 + b[4]

\* C10: SizeReceived is in 0..4; Data is non-empty only when SizeReceived is
\* 4; Data is never longer than the declared length; and Size does not change
\* from the moment its 4 bytes are collected until the record is reset (the
\* message delivered, or the socket disconnected).
C10_ReassemblyInvariant ==
    /\ [] /\ m_pendingPacket.SizeReceived \in 0..PrefixSize
          /\ m_pendingPacket.Data # <<>> => m_pendingPacket.SizeReceived = PrefixSize
          /\ m_pendingPacket.SizeReceived = PrefixSize
                => Len(m_pendingPacket.Data) <= DeclaredLength(m_pendingPacket.Size)
    /\ [][ (m_pendingPacket.SizeReceived = PrefixSize
              /\ m_pendingPacket'.SizeReceived = PrefixSize)
           => m_pendingPacket'.Size = m_pendingPacket.Size ]_vars

\* C10's case: the prefix complete and the payload collected in part, in a
\* receive call that was ended by a chunk call and is to be resumed.
C10_Witness ==
    /\ rcvPc = "idle"
    /\ rcvStatus = "NotReady"
    /\ m_pendingPacket.SizeReceived = PrefixSize
    /\ Len(m_pendingPacket.Data) >= 1
    /\ Len(m_pendingPacket.Data) = DeclaredLength(m_pendingPacket.Size) - 1

\* The attempt of the recorded connect call failed with would-block (the
\* connection is in progress).
AttemptWouldBlock ==
    connObs.attempt.result < 0 /\ getErrorStatus(connObs.attempt.err) = "NotReady"

\* C11: when connect returns, whatever the path (instant success, success
\* after the wait, refusal, timeout of the wait, an attempt that failed with
\* another error), the socket's blocking mode is the mode it had before the
\* call, for a socket that was blocking and for one that was not, with a
\* positive timeout and with a zero or negative one.
C11_BlockingModeRestored ==
    connObs.status # "None" => sndBlocking = connObs.blocking

\* C11's case: a positive timeout on a blocking socket, the wait timed out,
\* and the socket is blocking again.
C11_Witness ==
    /\ connObs.timeout > 0
    /\ connObs.blocking
    /\ connObs.waits = 1
    /\ connObs.wait.result = 0
    /\ connObs.status = "NotReady"
    /\ sndBlocking

\* C12 as stated: with a positive timeout, a connect whose attempt reports
\* would-block has called select before it returns, whatever the socket's
\* blocking mode was before the call.
C12_WaitsWhateverTheMode ==
    (connObs.status # "None" /\ connObs.timeout > 0 /\ AttemptWouldBlock)
        => connObs.waits = 1

\* C12, amended: with a positive timeout, a connect whose attempt reports
\* would-block has called select once before it returns if the socket was
\* blocking before the call; if it was non-blocking, connect returns NotReady
\* at once, select not called.
C12_WaitsIfBlocking ==
    (connObs.status # "None" /\ connObs.timeout > 0 /\ AttemptWouldBlock)
        => /\ connObs.blocking => connObs.waits = 1
           /\ ~connObs.blocking => (connObs.waits = 0 /\ connObs.status = "NotReady")

\* C12's case: a connection in progress on a blocking socket, waited for, and
\* found established.
C12_Witness ==
    /\ connObs.timeout > 0
    /\ connObs.blocking
    /\ AttemptWouldBlock
    /\ connObs.waits = 1
    /\ connObs.status = "Done"

\* C13: with a zero or negative timeout connect calls ::connect exactly once
\* and select never, and returns Done if ::connect succeeded and the status
\* its errno translates to if not.
C13_SingleAttemptNoWait ==
    (connObs.status # "None" /\ connObs.timeout <= 0)
        => /\ connObs.attempts = 1
           /\ connObs.waits = 0
           /\ connObs.probes = 0
           /\ connObs.status = IF connObs.attempt.result = 0 THEN "Done"
                               ELSE getErrorStatus(connObs.attempt.err)

\* C13's case: a zero timeout on a blocking socket, the attempt reporting
\* would-block, returned as NotReady with no wait.
C13_Witness ==
    /\ connObs.timeout = 0
    /\ connObs.blocking
    /\ AttemptWouldBlock
    /\ connObs.attempts = 1
    /\ connObs.waits = 0
    /\ connObs.status = "NotReady"

\* The reassembly record is empty.
PendingEmpty(pend) ==
    pend.SizeReceived = 0 /\ pend.Size = <<0, 0, 0, 0>> /\ pend.Data = <<>>

\* C14: every disconnect() and every connect() leaves the reassembly record
\* empty, whatever an interrupted receive had collected; and a disconnect()
\* on a socket that is disconnected already changes nothing.
C14_DisconnectResetsPending ==
    /\ [][ (DisconnectReceiver \/ ConnectReceiver)
              => PendingEmpty(m_pendingPacket') ]_vars
    /\ [][ (DisconnectReceiver /\ ~rcvOpen /\ PendingEmpty(m_pendingPacket))
              => UNCHANGED vars ]_vars

\* C14's case: a receive was interrupted with the prefix and part of the
\* payload collected, and the socket was connected again: the bytes taken
\* from the stream are more than the frames delivered, and the record is empty.
C14_Witness ==
    /\ rcvPc = "idle"
    /\ rcvOpen
    /\ Len(rxLog) > Len(Frames(delivered)) + PrefixSize
    /\ PendingEmpty(m_pendingPacket)

\* C16: with a positive timeout on a blocking socket, after an attempt that
\* reported would-block: if select reports the handle writable, connect
\* returns Done exactly when the peer's address can be retrieved, and the
\* status the errno of the failed probe translates to when it cannot; if
\* select times out or fails, connect returns a failure status, never Done.
C16_WaitOutcome ==
    (connObs.timeout > 0 /\ connObs.blocking /\ AttemptWouldBlock)
        => /\ connObs.waits = 1
           /\ connObs.wait.result > 0
                 => /\ connObs.probes = 1
                    /\ connObs.status = "Done" <=> connObs.probe.result = 1
                    /\ connObs.probe.result # 1
                          => connObs.status = getErrorStatus(connObs.probe.err)
           /\ connObs.wait.result <= 0
                 => /\ connObs.probes = 0
                    /\ connObs.status \in {"NotReady", "Disconnected", "Error"}

\* C16's case: the handle became writable and the peer's address could not
\* be retrieved: the connection was refused.
C16_Witness ==
    /\ connObs.timeout > 0
    /\ connObs.blocking
    /\ AttemptWouldBlock
    /\ connObs.wait.result > 0
    /\ connObs.probe.result = 0
    /\ connObs.status = "Disconnected"

\* n / d rounded up.
CeilDiv(n, d) == (n + d - 1) \div d

C17_NeverOverreads ==
    /\ [][ (rcvPc # "idle" /\ rxObs' # rxObs)
              => /\ rxObs'.size >= 1
                 /\ rxObs'.received <= rxObs'.size
                 /\ Len(rxLog') - Len(rxLog) = rxObs'.received
                 /\ rcvPc = "prefix"
                       => rxObs'.size <= PrefixSize - m_pendingPacket.SizeReceived
                 /\ rcvPc = "payload"
                       => rxObs'.size <= Min(DeclaredLength(m_pendingPacket.Size)
                                                - Len(m_pendingPacket.Data), BufferSize) ]_vars
    /\ [] /\ \A i \in 1..Len(delivered) : delivered[i] = sentLog[i]
          /\ (rcvPc = "idle" /\ rcvStatus = "Done") => rxLog = Frames(delivered)

\* C17's case: the first message, with a payload, just delivered while bytes
\* of the second wait in the stream.
C17_Witness ==
    /\ rcvPc = "idle"
    /\ rcvStatus = "Done"
    /\ Len(delivered) = 1
    /\ delivered[1] # <<>>
    /\ Len(sentLog) = MaxMsgs
    /\ wire # <<>>
    /\ rxLog = WireFrame(sentLog[1])

\* C18: every ::send call of send(data, size, sent) that reports no error
\* advances sent by at least one byte (so the loop ends after at most `size`
\* calls).
C18_EachSendAdvances ==
    [][ (/\ sndPc = "loop"
         /\ (txObs' # txObs \/ sndCall' # sndCall \/ sndPc' # sndPc)
         /\ txObs'.result >= 0)
        => sndCall'.sent > sndCall.sent ]_vars

\* C19: disconnect() and connect() leave the packet's m_sendPos (and its data)
\* as they were, and every send(Packet&) hands the raw send the block from
\* m_sendPos on: after a Partial, a disconnect and a connect, the next send of
\* the packet starts in the middle of the block.
C19_ResumeOffsetSurvivesReconnect ==
    /\ [][ (DisconnectSender \/ ReconnectSender) => sendPacket' = sendPacket ]_vars
    /\ [][ (sndPc = "idle" /\ sndPc' = "loop")
              => LET block == WireFrame(sendPacket'.m_data)
                 IN  sndCall'.data = SubSeq(block, sendPacket'.m_sendPos + 1, Len(block)) ]_vars

\* C19's case: on a new connection, whose stream started empty, the bytes in
\* flight are bytes of the block from an offset greater than 0 on: the send
\* after the reconnect started in the middle of the block.
C19_Witness ==
    /\ sndCall.caller = "packet"
    /\ sndOpen
    /\ wire # <<>>
    /\ Len(txLog) > Len(wire)
    /\ wire = SubSeq(m_blockToSendBuffer, Len(txLog) - Len(wire) + 1, Len(txLog))
    /\ sendPacket.m_sendPos >= 1

\* C20: when receive(Packet&) has returned NotReady, Disconnected or Error the
\* user packet is empty, whatever it held before the call; when it has
\* returned Done the user packet holds the payload of the last frame taken
\* from the stream, and nothing else.
C20_PacketClearedAtEntry ==
    /\ (rcvPc = "idle" /\ rcvStatus \in {"NotReady", "Disconnected", "Error"})
          => recvPacket = <<>>
    /\ (rcvPc = "idle" /\ rcvStatus = "Done")
          => rxLog = Frames(SubSeq(delivered, 1, Len(delivered) - 1))
                     \o WireFrame(recvPacket)

\* C20's case: a receive call returned NotReady and left the user packet
\* empty, which held the payload of the message delivered by the call before.
C20_Witness ==
    /\ rcvPc = "idle"
    /\ rcvStatus = "NotReady"
    /\ recvPacket = <<>>
    /\ Len(delivered) >= 1
    /\ delivered[Len(delivered)] # <<>>
    /\ m_pendingPacket.SizeReceived >= 1

====
